---- MODULE Spec2Model ----
(***************************************************************************)
(* Transaction handling of diesel's Connection trait                       *)
(* (diesel/src/connection/mod.rs): transaction, begin_test_transaction and *)
(* test_transaction, on top of the transaction manager and the SQL engine  *)
(* it sends its commands to.                                               *)
(*                                                                         *)
(* A call of transaction / test_transaction runs a caller-supplied body    *)
(* that may itself call these operations, so each call is two steps: the   *)
(* part before the body (begin) and the part after it (commit / rollback,  *)
(* return).  The calls in progress form a stack of frames.                 *)
(***************************************************************************)
EXTENDS Integers, Sequences, FiniteSets, TLC

VARIABLES
    transaction_depth,  \* the transaction manager's depth counter
    savepoints,         \* engine: names of the open savepoints, oldest first
    in_txn,             \* engine: TRUE while a real transaction is open
    stack,              \* calls of transaction / test_transaction in progress
    last,               \* the command emitted by the last step, if any
    ret,                \* the call that finished in the last step, if any
    db,                 \* engine: the rows the connection sees
    snaps,              \* engine: the rows at BEGIN and at each open savepoint
    statement_cache,    \* SqliteConnection: the cached prepared statements
    is_log_query,       \* SqliteConnection: timing logs enabled
    is_explain_query,   \* SqliteConnection: plan logging enabled
    qret                \* the query call that finished in the last step

conn == <<statement_cache, is_log_query, is_explain_query>>

vars == <<transaction_depth, savepoints, in_txn, stack, last, ret, db, snaps,
          statement_cache, is_log_query, is_explain_query, qret>>

\* Nesting bound of the model: no begin is attempted at this depth.
MaxDepth == 3

(***************************************************************************)
(* Values                                                                  *)
(***************************************************************************)
\* Success values a body can return (type T).
Values == {<<"v1">>, <<"v2">>}

\* The caller's error type E: diesel's own Error, or a type of the caller
\* that implements From<Error>.
ErrorTypes == {"Error", "Custom"}

RollbackTransaction == <<"RollbackTransaction">>

\* Errors a body can return, per error type.
BodyErrors(etype) ==
    IF etype = "Error"
    THEN {RollbackTransaction, <<"NotFound">>}
    ELSE {<<"User">>, <<"FromError", "NotFound">>}

\* E: From<Error>.  For E = Error the conversion is the reflexive one of the
\* standard library; another E wraps the diesel error.
From(etype, err) == IF etype = "Error" THEN err ELSE <<"FromError">> \o err

Ok(v) == [tag |-> "Ok", val |-> v]
Err(e) == [tag |-> "Err", val |-> e]
Panic(m) == [tag |-> "Panic", val |-> <<m>>]
NotRun == [tag |-> "NotRun", val |-> <<>>]
Unit == <<"()">>

\* What a body can return for a given error type.
BodyResults(etype) ==
    {Ok(v) : v \in Values} \cup {Err(e) : e \in BodyErrors(etype)}

\* The failure the engine reports for a command.
DatabaseError(op) == <<"DatabaseError", op>>

NoCmd == [op |-> "none", verb |-> "none", name |-> 0, ok |-> TRUE, at |-> 0]

(***************************************************************************)
(* Transaction manager (AnsiTransactionManager)                            *)
(* Each operation takes the depth and the engine's answer to the command   *)
(* and gives the new depth, the command emitted and the QueryResult.       *)
(***************************************************************************)
\* Faulty variant: names the savepoint by the depth before the begin.
begin_transaction_old_depth(depth, ok) ==
    [depth |-> IF ok THEN depth + 1 ELSE depth,
     cmd   |-> [op |-> "begin",
                verb |-> IF depth = 0 THEN "BEGIN" ELSE "SAVEPOINT",
                name |-> depth,
                ok |-> ok, at |-> depth],
     res   |-> IF ok THEN Ok(Unit) ELSE Err(DatabaseError("begin"))]

begin_transaction(depth, ok) ==
    [depth |-> IF ok THEN depth + 1 ELSE depth,
     cmd   |-> [op |-> "begin",
                verb |-> IF depth = 0 THEN "BEGIN" ELSE "SAVEPOINT",
                name |-> IF depth = 0 THEN 0 ELSE depth + 1,
                ok |-> ok, at |-> depth],
     res   |-> IF ok THEN Ok(Unit) ELSE Err(DatabaseError("begin"))]

commit_transaction(depth, ok) ==
    [depth |-> IF ok THEN depth - 1 ELSE depth,
     cmd   |-> [op |-> "commit",
                verb |-> IF depth = 1 THEN "COMMIT" ELSE "RELEASE",
                name |-> IF depth = 1 THEN 0 ELSE depth,
                ok |-> ok, at |-> depth],
     res   |-> IF ok THEN Ok(Unit) ELSE Err(DatabaseError("commit"))]

rollback_transaction(depth, ok) ==
    [depth |-> IF ok THEN depth - 1 ELSE depth,
     cmd   |-> [op |-> "rollback",
                verb |-> IF depth = 1 THEN "ROLLBACK" ELSE "ROLLBACK TO",
                name |-> IF depth = 1 THEN 0 ELSE depth,
                ok |-> ok, at |-> depth],
     res   |-> IF ok THEN Ok(Unit) ELSE Err(DatabaseError("rollback"))]

get_transaction_depth(depth) == depth

(***************************************************************************)
(* SQL engine: the effect of a command on the open savepoints              *)
(***************************************************************************)
\* Index of the newest open savepoint called name, 0 if there is none.
NewestIndex(sps, name) ==
    IF \E i \in 1..Len(sps) : sps[i] = name
    THEN CHOOSE i \in 1..Len(sps) :
            /\ sps[i] = name
            /\ \A j \in (i + 1)..Len(sps) : sps[j] # name
    ELSE 0

\* A failed command changes nothing.  RELEASE and ROLLBACK TO (which also
\* releases) close the named savepoint and every savepoint opened after it.
EngineSavepoints(sps, cmd) ==
    IF ~cmd.ok THEN sps
    ELSE IF cmd.verb = "SAVEPOINT" THEN Append(sps, cmd.name)
    ELSE IF cmd.verb \in {"RELEASE", "ROLLBACK TO"}
         THEN IF NewestIndex(sps, cmd.name) = 0 THEN sps
              ELSE SubSeq(sps, 1, NewestIndex(sps, cmd.name) - 1)
    ELSE IF cmd.verb \in {"COMMIT", "ROLLBACK"} THEN <<>>
    ELSE sps

EngineInTxn(open, cmd) ==
    IF ~cmd.ok THEN open
    ELSE IF cmd.verb = "BEGIN" THEN TRUE
    ELSE IF cmd.verb \in {"COMMIT", "ROLLBACK"} THEN FALSE
    ELSE open

\* The rows after cmd.  ROLLBACK gives back the rows at BEGIN, ROLLBACK TO
\* the rows at the named savepoint; snapshot 1 is the one taken at BEGIN and
\* snapshot i + 1 the one of the i-th open savepoint.
EngineDb(rows, sn, sps, cmd) ==
    IF ~cmd.ok THEN rows
    ELSE IF cmd.verb = "ROLLBACK"
         THEN IF sn = <<>> THEN rows ELSE sn[1]
    ELSE IF cmd.verb = "ROLLBACK TO"
         THEN IF NewestIndex(sps, cmd.name) = 0
                 \/ NewestIndex(sps, cmd.name) + 1 > Len(sn)
              THEN rows
              ELSE sn[NewestIndex(sps, cmd.name) + 1]
    ELSE rows

EngineSnaps(rows, sn, sps, cmd) ==
    IF ~cmd.ok THEN sn
    ELSE IF cmd.verb = "BEGIN" THEN <<rows>>
    ELSE IF cmd.verb = "SAVEPOINT" THEN Append(sn, rows)
    ELSE IF cmd.verb \in {"RELEASE", "ROLLBACK TO"}
         THEN IF NewestIndex(sps, cmd.name) = 0
                 \/ NewestIndex(sps, cmd.name) > Len(sn)
              THEN sn
              ELSE SubSeq(sn, 1, NewestIndex(sps, cmd.name))
    ELSE IF cmd.verb \in {"COMMIT", "ROLLBACK"} THEN <<>>
    ELSE sn

\* SQL texts handed to execute / batch_execute, and the row each one adds.
Sqls == {"SELECT 1", "INSERT a", "INSERT b", "INSERT c"}

Effect(sql) ==
    IF sql = "INSERT a" THEN {"a"}
    ELSE IF sql = "INSERT b" THEN {"b"}
    ELSE IF sql = "INSERT c" THEN {"c"}
    ELSE {}

\* The rows after the engine ran sql.
EngineExec(rows, sql, ok) == IF ok THEN rows \cup Effect(sql) ELSE rows

(***************************************************************************)
(* SimpleConnection::batch_execute                                         *)
(***************************************************************************)
batch_execute(query, ok) ==
    IF ok THEN Ok(Unit) ELSE Err(DatabaseError("exec"))

(***************************************************************************)
(* Queries built with the DSL, and the statement cache                     *)
(***************************************************************************)
\* A query is its static shape and the run-time values it binds: arg is the
\* bound value, the literal text, or the length of the list.
Queries ==
    {[shape |-> "select_bind", arg |-> 1],
     [shape |-> "select_bind", arg |-> 2],
     [shape |-> "select_sql_literal", arg |-> 1],
     [shape |-> "select_eq_sql_literal", arg |-> 1],
     [shape |-> "select_in_vec", arg |-> 1],
     [shape |-> "select_in_vec", arg |-> 3],
     [shape |-> "select_in_subselect", arg |-> 1]}

NoQuery == [shape |-> "none", arg |-> 0]

\* QueryFragment::to_sql: the SQL text of a query.
to_sql(q) ==
    IF q.shape = "select_bind" THEN "SELECT ?"
    ELSE IF q.shape = "select_sql_literal"
         THEN (IF q.arg = 1 THEN "SELECT 1" ELSE "SELECT 2")
    ELSE IF q.shape = "select_eq_sql_literal" THEN "SELECT ? = 1"
    ELSE IF q.shape = "select_in_vec"
         THEN (IF q.arg = 1 THEN "SELECT ? IN (?)" ELSE "SELECT ? IN (?, ?, ?)")
    ELSE IF q.shape = "select_in_subselect" THEN "SELECT ? IN (SELECT ?)"
    ELSE ""

\* The fingerprint: the static shape, whatever the values bound.
Fingerprint(q) == q.shape

\* Raw SQL literals and lists of run-time length disqualify a query.
is_cacheable(q) ==
    q.shape \notin {"select_sql_literal", "select_eq_sql_literal", "select_in_vec"}

\* built says whether build_fn was invoked.
\* The entries of the cache for a fingerprint.  An entry is the fingerprint
\* with the statement prepared for it, named after the query it was built
\* for.
Entries(cache, fp) == {e \in cache : e.fp = fp}

NoStmt == [kind |-> "none", by |-> NoQuery]

\* Faulty variant: every statement built is inserted.
cached_statement_caches_all(cache, q, prepare_ok) ==
    IF Entries(cache, Fingerprint(q)) # {}
    THEN [cache |-> cache, built |-> FALSE, res |-> Ok(Unit),
          stmt |-> [kind |-> "Cached",
                    by |-> (CHOOSE e \in Entries(cache, Fingerprint(q)) : TRUE).by]]
    ELSE IF ~prepare_ok
         THEN [cache |-> cache, built |-> TRUE,
               res |-> Err(DatabaseError("prepare")), stmt |-> NoStmt]
    ELSE [cache |-> cache \cup {[fp |-> Fingerprint(q), by |-> q]},
          built |-> TRUE, res |-> Ok(Unit),
          stmt |-> [kind |-> "Cached", by |-> q]]

\* StatementCache::cached_statement with build_fn = Statement::prepare.
cached_statement(cache, q, prepare_ok) ==
    IF Entries(cache, Fingerprint(q)) # {}
    THEN [cache |-> cache, built |-> FALSE, res |-> Ok(Unit),
          stmt |-> [kind |-> "Cached",
                    by |-> (CHOOSE e \in Entries(cache, Fingerprint(q)) : TRUE).by]]
    ELSE IF ~prepare_ok
         THEN [cache |-> cache, built |-> TRUE,
               res |-> Err(DatabaseError("prepare")), stmt |-> NoStmt]
    ELSE IF is_cacheable(q)
         THEN [cache |-> cache \cup {[fp |-> Fingerprint(q), by |-> q]},
               built |-> TRUE, res |-> Ok(Unit),
               stmt |-> [kind |-> "Cached", by |-> q]]
    ELSE [cache |-> cache, built |-> TRUE, res |-> Ok(Unit),
          stmt |-> [kind |-> "NonCached", by |-> q]]

\* RawConnection::execute_for_string
execute_for_string(query, ok) ==
    IF ok THEN Ok(<<"plan">>) ELSE Err(DatabaseError("execute_for_string"))

(***************************************************************************)
(* Connection::transaction                                                 *)
(***************************************************************************)
\* Faulty variant: a nested call opens no savepoint.
transaction_begin_no_savepoint(depth, etype, ok) ==
    IF depth > 0
    THEN [depth |-> depth, cmd |-> NoCmd, returned |-> NotRun]
    ELSE LET b == begin_transaction(depth, ok)
         IN  [depth    |-> b.depth,
              cmd      |-> b.cmd,
              returned |-> IF b.res.tag = "Err"
                           THEN Err(From(etype, b.res.val))
                           ELSE NotRun]

\* Faulty variant: the result of begin_transaction is discarded.
transaction_begin_unchecked(depth, etype, ok) ==
    LET b == begin_transaction(depth, ok)
    IN  [depth |-> b.depth, cmd |-> b.cmd, returned |-> NotRun]

\* Lines 156-157: begin, and the early return of try! when begin fails.
transaction_begin(depth, etype, ok) ==
    LET b == begin_transaction(depth, ok)
    IN  [depth    |-> b.depth,
         cmd      |-> b.cmd,
         returned |-> IF b.res.tag = "Err"
                      THEN Err(From(etype, b.res.val))
                      ELSE NotRun]

\* Faulty variant: the commit's result is discarded.
transaction_match_commit_unchecked(depth, etype, body, ok) ==
    IF body.tag = "Ok"
    THEN LET c == commit_transaction(depth, ok)
         IN  [depth |-> c.depth, cmd |-> c.cmd, res |-> Ok(body.val)]
    ELSE LET r == rollback_transaction(depth, ok)
         IN  [depth |-> r.depth,
              cmd   |-> r.cmd,
              res   |-> IF r.res.tag = "Err"
                        THEN Err(From(etype, r.res.val))
                        ELSE Err(body.val)]

\* Faulty variant: the Err arm commits.
transaction_match_commit_on_err(depth, etype, body, ok) ==
    LET c == commit_transaction(depth, ok)
    IN  [depth |-> c.depth,
         cmd   |-> c.cmd,
         res   |-> IF c.res.tag = "Err"
                   THEN Err(From(etype, c.res.val))
                   ELSE body]

\* Faulty variant: the two arms close the scope the other's way.
transaction_match_swapped(depth, etype, body, ok) ==
    LET x == IF body.tag = "Ok"
             THEN rollback_transaction(depth, ok)
             ELSE commit_transaction(depth, ok)
    IN  [depth |-> x.depth,
         cmd   |-> x.cmd,
         res   |-> IF x.res.tag = "Err"
                   THEN Err(From(etype, x.res.val))
                   ELSE body]

\* Faulty variant: the rollback's result is discarded.
transaction_match_rollback_unchecked(depth, etype, body, ok) ==
    IF body.tag = "Ok"
    THEN LET c == commit_transaction(depth, ok)
         IN  [depth |-> c.depth,
              cmd   |-> c.cmd,
              res   |-> IF c.res.tag = "Err"
                        THEN Err(From(etype, c.res.val))
                        ELSE Ok(body.val)]
    ELSE LET r == rollback_transaction(depth, ok)
         IN  [depth |-> r.depth, cmd |-> r.cmd, res |-> Err(body.val)]

\* Faulty variant: a failed commit is reported as RollbackTransaction.
transaction_match_commit_failure_as_sentinel(depth, etype, body, ok) ==
    IF body.tag = "Ok"
    THEN LET c == commit_transaction(depth, ok)
         IN  [depth |-> c.depth,
              cmd   |-> c.cmd,
              res   |-> IF c.res.tag = "Err"
                        THEN Err(From(etype, RollbackTransaction))
                        ELSE Ok(body.val)]
    ELSE LET r == rollback_transaction(depth, ok)
         IN  [depth |-> r.depth,
              cmd   |-> r.cmd,
              res   |-> IF r.res.tag = "Err"
                        THEN Err(From(etype, r.res.val))
                        ELSE Err(body.val)]

\* Lines 158-167: the match on the body's result.
transaction_match(depth, etype, body, ok) ==
    IF body.tag = "Ok"
    THEN LET c == commit_transaction(depth, ok)
         IN  [depth |-> c.depth,
              cmd   |-> c.cmd,
              res   |-> IF c.res.tag = "Err"
                        THEN Err(From(etype, c.res.val))
                        ELSE Ok(body.val)]
    ELSE LET r == rollback_transaction(depth, ok)
         IN  [depth |-> r.depth,
              cmd   |-> r.cmd,
              res   |-> IF r.res.tag = "Err"
                        THEN Err(From(etype, r.res.val))
                        ELSE Err(body.val)]

(***************************************************************************)
(* Connection::begin_test_transaction                                      *)
(***************************************************************************)
\* Faulty variant: the assertion on the depth is missing.
begin_test_transaction_no_assert(depth, ok) ==
    LET b == begin_transaction(depth, ok)
    IN  [depth |-> b.depth, cmd |-> b.cmd, res |-> b.res]

begin_test_transaction(depth, ok) ==
    IF get_transaction_depth(depth) # 0
    THEN [depth |-> depth, cmd |-> NoCmd, res |-> Panic("assertion failed")]
    ELSE LET b == begin_transaction(depth, ok)
         IN  [depth |-> b.depth, cmd |-> b.cmd, res |-> b.res]

(***************************************************************************)
(* Connection::test_transaction                                            *)
(***************************************************************************)
\* Faulty variant: the closure returns Ok(()) when f succeeded.
test_closure_ok_on_success(fres) ==
    [user_result |-> IF fres.tag = "Ok" THEN <<fres.val>> ELSE <<>>,
     res         |-> IF fres.tag = "Ok" THEN Ok(Unit) ELSE Err(RollbackTransaction)]

\* Lines 185-188: the closure handed to transaction.  An Option is a
\* sequence of length 0 or 1.
test_closure(fres) ==
    [user_result |-> IF fres.tag = "Ok" THEN <<fres.val>> ELSE <<>>,
     res         |-> Err(RollbackTransaction)]

\* Faulty variant: a missing value is replaced by a default instead of a panic.
expect_or_default(user_result) ==
    IF user_result # <<>> THEN Ok(user_result[1]) ELSE Ok(Unit)

\* Line 189: user_result.expect(..)
expect(user_result) ==
    IF user_result # <<>>
    THEN Ok(user_result[1])
    ELSE Panic("Transaction did not succeed")

\* Lines 184-189 when begin failed: the closure never runs.
test_transaction_not_begun(returned) ==
    [tres |-> returned, res |-> expect(<<>>)]

\* Lines 184-189 once f has returned fres.
test_transaction_exit(depth, fres, ok) ==
    LET c == test_closure(fres)
        t == transaction_match(depth, "Error", c.res, ok)
    IN  [depth |-> t.depth,
         cmd   |-> t.cmd,
         body  |-> c.res,
         tres  |-> t.res,
         res   |-> expect(c.user_result)]

(***************************************************************************)
(* SqliteConnection (sqlite/connection/mod.rs)                             *)
(* Each operation gives its result and the events it causes, in order:     *)
(* "logger_new" (a QueryLogger that records a start time is created),      *)
(* "explain" (the EXPLAIN QUERY PLAN statement is issued), "explain_log",   *)
(* "exec" / "run" (the real statement is executed) and "log" (the timing   *)
(* record written when the QueryLogger is dropped).                        *)
(***************************************************************************)
Ev(e, sql) == [ev |-> e, sql |-> sql]

\* What the engine and the DSL answer during one call.
Answers ==
    [prepare : BOOLEAN, bind : {"ok", "collect_binds", "bind"},
     to_sql : BOOLEAN, explain : BOOLEAN, run : BOOLEAN]

\* Faulty variant: the probe query is logged like any other.
QueryLogger_new_logs_probe(query, is_log) ==
    [st |-> is_log,
     events |-> IF is_log THEN <<Ev("logger_new", <<query>>)>> ELSE <<>>]

\* QueryLogger::new: st is TRUE when a start time is recorded.
QueryLogger_new(query, is_log) ==
    IF query = "SELECT 1"
    THEN [st |-> FALSE, events |-> <<>>]
    ELSE IF is_log
         THEN [st |-> TRUE, events |-> <<Ev("logger_new", <<query>>)>>]
         ELSE [st |-> FALSE, events |-> <<>>]

\* Drop for QueryLogger
QueryLogger_drop(logger, query) ==
    IF logger.st THEN <<Ev("log", <<query>>)>> ELSE <<>>

\* Faulty variant: no EXPLAIN statement is issued.
explain_query_skipped(query, is_explain, explain_ok) ==
    [events |-> <<>>, res |-> Ok(Unit)]

explain_query(query, is_explain, explain_ok) ==
    IF query = "SELECT 1" THEN [events |-> <<>>, res |-> Ok(Unit)]
    ELSE IF ~is_explain THEN [events |-> <<>>, res |-> Ok(Unit)]
    ELSE LET explain_query_text == <<"EXPLAIN QUERY PLAN", query>>
             explain == execute_for_string(explain_query_text, explain_ok)
         IN  IF explain.tag = "Err"
             THEN [events |-> <<Ev("explain", explain_query_text)>>,
                   res    |-> Err(explain.val)]
             ELSE [events |-> <<Ev("explain", explain_query_text),
                                Ev("explain_log", <<query>>)>>,
                   res    |-> Ok(Unit)]

construct_and_explain_query(q, is_explain, ans) ==
    IF ~ans.to_sql
    THEN [events |-> <<>>, res |-> Err(<<"QueryBuilderError">>), query |-> ""]
    ELSE LET e == explain_query(to_sql(q), is_explain, ans.explain)
         IN  IF e.res.tag = "Err"
             THEN [events |-> e.events, res |-> e.res, query |-> ""]
             ELSE [events |-> e.events, res |-> Ok(Unit), query |-> to_sql(q)]

\* Connection::execute for SqliteConnection.  executed says whether the real
\* statement was handed to the engine.
execute(query, is_log, is_explain, ans) ==
    LET logger == QueryLogger_new(query, is_log)
        e == explain_query(query, is_explain, ans.explain)
        b == batch_execute(query, ans.run)
    IN  IF e.res.tag = "Err"
        THEN [events |-> logger.events \o e.events
                            \o QueryLogger_drop(logger, query),
              res |-> e.res, executed |-> FALSE]
        ELSE [events |-> logger.events \o e.events
                            \o <<Ev("exec", <<query>>)>>
                            \o QueryLogger_drop(logger, query),
              res |-> IF b.tag = "Err" THEN b ELSE Ok(<<"rows_affected">>),
              executed |-> TRUE]

\* Faulty variant: the statement is prepared without asking the cache.
cached_prepared_statement_uncached(cache, q, prepare_ok) ==
    IF ~prepare_ok
    THEN [cache |-> cache, built |-> TRUE,
          res |-> Err(DatabaseError("prepare")), stmt |-> NoStmt]
    ELSE [cache |-> cache, built |-> TRUE, res |-> Ok(Unit),
          stmt |-> [kind |-> "NonCached", by |-> q]]

cached_prepared_statement(cache, q, prepare_ok) ==
    cached_statement(cache, q, prepare_ok)

\* Faulty variant: a statement whose binding fails is dropped from the cache.
prepare_query_evicts(cache, q, ans) ==
    LET c == cached_prepared_statement(cache, q, ans.prepare)
    IN  IF c.res.tag = "Err"
        THEN [cache |-> c.cache, stmt |-> c.stmt, built |-> c.built, res |-> c.res]
        ELSE IF ans.bind # "ok"
        THEN [cache |-> c.cache \ Entries(c.cache, Fingerprint(q)),
              stmt |-> c.stmt, built |-> c.built,
              res |-> Err(<<"SerializationError", ans.bind>>)]
        ELSE [cache |-> c.cache, stmt |-> c.stmt, built |-> c.built,
              res |-> Ok(Unit)]

prepare_query(cache, q, ans) ==
    LET c == cached_prepared_statement(cache, q, ans.prepare)
    IN  IF c.res.tag = "Err"
        THEN [cache |-> c.cache, stmt |-> c.stmt, built |-> c.built, res |-> c.res]
        ELSE IF ans.bind # "ok"
        THEN [cache |-> c.cache, stmt |-> c.stmt, built |-> c.built,
              res |-> Err(<<"SerializationError", ans.bind>>)]
        ELSE [cache |-> c.cache, stmt |-> c.stmt, built |-> c.built,
              res |-> Ok(Unit)]

\* Lines 83-86 and 98-101: the block that renders, explains and logs.  The
\* QueryLogger is a local of the block and is dropped at its end.
instrument(q, is_log, is_explain, ans) ==
    IF is_log \/ is_explain
    THEN LET c == construct_and_explain_query(q, is_explain, ans)
             logger == QueryLogger_new(c.query, is_log)
         IN  IF c.res.tag = "Err"
             THEN [events |-> c.events, res |-> c.res]
             ELSE [events |-> c.events \o logger.events
                                 \o QueryLogger_drop(logger, c.query),
                   res |-> Ok(Unit)]
    ELSE [events |-> <<>>, res |-> Ok(Unit)]

query_by_index(cache, q, is_log, is_explain, ans) ==
    LET p == prepare_query(cache, q, ans)
        i == instrument(q, is_log, is_explain, ans)
    IN  IF p.res.tag = "Err"
        THEN [cache |-> p.cache, stmt |-> p.stmt, built |-> p.built,
              events |-> <<>>, res |-> p.res, executed |-> FALSE]
        ELSE IF i.res.tag = "Err"
        THEN [cache |-> p.cache, stmt |-> p.stmt, built |-> p.built,
              events |-> i.events, res |-> i.res, executed |-> FALSE]
        ELSE [cache |-> p.cache, stmt |-> p.stmt, built |-> p.built,
              events |-> i.events \o <<Ev("run", <<to_sql(q)>>)>>,
              res |-> IF ans.run THEN Ok(<<"rows">>)
                      ELSE Err(DatabaseError("step")),
              executed |-> TRUE]

execute_returning_count(cache, q, is_log, is_explain, ans) ==
    LET p == prepare_query(cache, q, ans)
        i == instrument(q, is_log, is_explain, ans)
    IN  IF p.res.tag = "Err"
        THEN [cache |-> p.cache, stmt |-> p.stmt, built |-> p.built,
              events |-> <<>>, res |-> p.res, executed |-> FALSE]
        ELSE IF i.res.tag = "Err"
        THEN [cache |-> p.cache, stmt |-> p.stmt, built |-> p.built,
              events |-> i.events, res |-> i.res, executed |-> FALSE]
        ELSE [cache |-> p.cache, stmt |-> p.stmt, built |-> p.built,
              events |-> i.events \o <<Ev("run", <<to_sql(q)>>)>>,
              res |-> IF ans.run THEN Ok(<<"rows_affected">>)
                      ELSE Err(DatabaseError("run")),
              executed |-> TRUE]

\* ffi::SQLITE_OK and two of the other result codes.
SQLITE_OK == "SQLITE_OK"
ResultCodes == {SQLITE_OK, "SQLITE_ERROR", "SQLITE_NOTADB"}

\* What RawConnection::rekey can return.
RekeyResults == {Ok(<<c>>) : c \in ResultCodes} \cup {Err(<<"NulError">>)}

error_message(err_code) == <<"message of", err_code>>

\* Faulty variant: every result code counts as success.
change_password_any_code(rekey) ==
    IF rekey.tag = "Err" THEN Err(rekey.val) ELSE Ok(Unit)

change_password(rekey) ==
    IF rekey.tag = "Err" THEN Err(rekey.val)
    ELSE IF rekey.val[1] = SQLITE_OK THEN Ok(Unit)
    ELSE Err(<<"DatabaseError", "UnableToReEncrypt">>
             \o error_message(rekey.val[1]))

(***************************************************************************)
(* State machine                                                           *)
(***************************************************************************)
NoRet ==
    [fn |-> "none", etype |-> "Error", d0 |-> 0, d1 |-> 0, body |-> NotRun,
     fbody |-> NotRun, tres |-> NotRun, res |-> NotRun, cmds |-> <<>>,
     db0 |-> {}]

NoQ ==
    [fn |-> "none", query |-> "", q |-> NoQuery, events |-> <<>>,
     res |-> NotRun, executed |-> FALSE, stmt |-> NoStmt, built |-> FALSE,
     plain |-> [res |-> NotRun, executed |-> FALSE], rekey |-> NotRun]

\* A step that is no query call and does not touch the connection's cache
\* or configuration.
ConnUntouched ==
    /\ qret' = NoQ
    /\ UNCHANGED conn

\* The transaction manager and the calls in progress are left alone.
TxnUntouched ==
    /\ ret' = NoRet
    /\ last' = [cmd |-> NoCmd, open |-> savepoints]
    /\ UNCHANGED <<transaction_depth, savepoints, in_txn, stack, snaps>>

Init ==
    /\ transaction_depth = 0
    /\ savepoints = <<>>
    /\ in_txn = FALSE
    /\ stack = <<>>
    /\ last = [cmd |-> NoCmd, open |-> <<>>]
    /\ ret = NoRet
    /\ db = {}
    /\ snaps = <<>>
    /\ statement_cache = {}
    /\ is_log_query = FALSE
    /\ is_explain_query = FALSE
    /\ qret = NoQ

Top == stack[Len(stack)]
Pop == SubSeq(stack, 1, Len(stack) - 1)

\* The innermost call returns after a successful commit: the rows it added
\* now belong to the enclosing call, which notes them in kept.
PopCommitted(rows) ==
    IF Len(stack) <= 1 THEN <<>>
    ELSE [Pop EXCEPT ![Len(stack) - 1].kept = @ \cup rows]

\* The engine receives cmd.
Emit(cmd) ==
    /\ savepoints' = EngineSavepoints(savepoints, cmd)
    /\ in_txn' = EngineInTxn(in_txn, cmd)
    /\ last' = [cmd |-> cmd, open |-> savepoints]
    /\ db' = EngineDb(db, snaps, savepoints, cmd)
    /\ snaps' = EngineSnaps(db, snaps, savepoints, cmd)

\* transaction(f) is called, at top level or from a running body.
TransactionCall(etype, ok) ==
    /\ transaction_depth < MaxDepth
    /\ ConnUntouched
    /\ LET t == transaction_begin(transaction_depth, etype, ok)
       IN  /\ transaction_depth' = t.depth
           /\ Emit(t.cmd)
           /\ IF t.returned.tag = "Err"
              THEN /\ stack' = stack
                   /\ ret' = [fn |-> "transaction", etype |-> etype,
                              d0 |-> transaction_depth, d1 |-> t.depth,
                              body |-> NotRun, fbody |-> NotRun,
                              tres |-> t.returned, res |-> t.returned,
                              cmds |-> <<t.cmd>>, db0 |-> db]
              ELSE /\ stack' = Append(stack,
                                  [fn |-> "transaction", etype |-> etype,
                                   d0 |-> transaction_depth, begin |-> t.cmd,
                                   db0 |-> db, kept |-> {}])
                   /\ ret' = NoRet

\* The body of the innermost transaction call returns.
TransactionBodyExit(body, ok) ==
    /\ stack # <<>>
    /\ Top.fn = "transaction"
    /\ body \in BodyResults(Top.etype)
    /\ ConnUntouched
    /\ LET t == transaction_match(transaction_depth, Top.etype, body, ok)
       IN  /\ transaction_depth' = t.depth
           /\ Emit(t.cmd)
           /\ stack' = IF t.cmd.op = "commit" /\ t.cmd.ok
                       THEN PopCommitted(db \ Top.db0)
                       ELSE Pop
           /\ ret' = [fn |-> "transaction", etype |-> Top.etype,
                      d0 |-> Top.d0, d1 |-> t.depth,
                      body |-> body, fbody |-> body,
                      tres |-> t.res, res |-> t.res,
                      cmds |-> <<Top.begin, t.cmd>>, db0 |-> Top.db0]

\* test_transaction(f) is called.  When begin fails the call panics, and
\* the panic unwinds every call in progress.
TestTransactionCall(ok) ==
    /\ transaction_depth < MaxDepth
    /\ ConnUntouched
    /\ LET t == transaction_begin(transaction_depth, "Error", ok)
       IN  /\ transaction_depth' = t.depth
           /\ Emit(t.cmd)
           /\ IF t.returned.tag = "Err"
              THEN LET x == test_transaction_not_begun(t.returned)
                   IN  /\ stack' = <<>>
                       /\ ret' = [fn |-> "test_transaction",
                                  etype |-> "Error",
                                  d0 |-> transaction_depth, d1 |-> t.depth,
                                  body |-> NotRun, fbody |-> NotRun,
                                  tres |-> x.tres, res |-> x.res,
                                  cmds |-> <<t.cmd>>, db0 |-> db]
              ELSE /\ stack' = Append(stack,
                                  [fn |-> "test_transaction",
                                   etype |-> "Error",
                                   d0 |-> transaction_depth, begin |-> t.cmd,
                                   db0 |-> db, kept |-> {}])
                   /\ ret' = NoRet

\* The function given to the innermost test_transaction call returns.
TestTransactionBodyExit(fres, ok) ==
    /\ stack # <<>>
    /\ Top.fn = "test_transaction"
    /\ fres \in BodyResults("Error") \cup BodyResults("Custom")
    /\ ConnUntouched
    /\ LET t == test_transaction_exit(transaction_depth, fres, ok)
       IN  /\ transaction_depth' = t.depth
           /\ Emit(t.cmd)
           /\ stack' = IF t.res.tag = "Panic" THEN <<>> ELSE Pop
           /\ ret' = [fn |-> "test_transaction", etype |-> "Error",
                      d0 |-> Top.d0, d1 |-> t.depth,
                      body |-> t.body, fbody |-> fres,
                      tres |-> t.tres, res |-> t.res,
                      cmds |-> <<Top.begin, t.cmd>>, db0 |-> Top.db0]

\* The innermost body panics.  Nothing in transaction or test_transaction
\* runs during unwinding, so every call in progress is left without a
\* command being issued.
BodyPanic ==
    /\ stack # <<>>
    /\ ConnUntouched
    /\ stack' = <<>>
    /\ ret' = [fn |-> Top.fn, etype |-> Top.etype,
               d0 |-> Top.d0, d1 |-> transaction_depth,
               body |-> Panic("body"), fbody |-> Panic("body"),
               tres |-> Panic("body"), res |-> Panic("body"),
               cmds |-> <<Top.begin>>, db0 |-> Top.db0]
    /\ last' = [cmd |-> NoCmd, open |-> savepoints]
    /\ UNCHANGED <<transaction_depth, savepoints, in_txn, db, snaps>>

\* begin_test_transaction() is called.
BeginTestTransaction(ok) ==
    LET b == begin_test_transaction(transaction_depth, ok)
    IN  /\ transaction_depth' = b.depth
        /\ ConnUntouched
        /\ IF b.cmd.op = "none"
           THEN /\ last' = [cmd |-> NoCmd, open |-> savepoints]
                /\ UNCHANGED <<savepoints, in_txn, db, snaps>>
           ELSE Emit(b.cmd)
        /\ stack' = IF b.res.tag = "Panic" THEN <<>> ELSE stack
        /\ ret' = [fn |-> "begin_test_transaction", etype |-> "Error",
                   d0 |-> transaction_depth, d1 |-> b.depth,
                   body |-> NotRun, fbody |-> NotRun,
                   tres |-> NotRun, res |-> b.res,
                   cmds |-> IF b.cmd.op = "none" THEN <<>> ELSE <<b.cmd>>,
                   db0 |-> db]

Next ==
    \/ \E etype \in ErrorTypes, ok \in BOOLEAN : TransactionCall(etype, ok)
    \/ \E body \in BodyResults("Error") \cup BodyResults("Custom"),
          ok \in BOOLEAN : TransactionBodyExit(body, ok)
    \/ \E ok \in BOOLEAN : TestTransactionCall(ok)
    \/ \E fres \in BodyResults("Error") \cup BodyResults("Custom"),
          ok \in BOOLEAN : TestTransactionBodyExit(fres, ok)
    \/ BodyPanic
    \/ \E ok \in BOOLEAN : BeginTestTransaction(ok)

Spec == Init /\ [][Next]_vars

\* batch_execute(query) is called, at top level or from a running body.
BatchExecute(query, ok) ==
    /\ db' = EngineExec(db, query, ok)
    /\ ConnUntouched
    /\ ret' = [NoRet EXCEPT !.fn = "batch_execute",
                            !.res = batch_execute(query, ok),
                            !.d0 = transaction_depth,
                            !.d1 = transaction_depth,
                            !.db0 = db]
    /\ last' = [cmd |-> NoCmd, open |-> savepoints]
    /\ UNCHANGED <<transaction_depth, savepoints, in_txn, stack, snaps>>

\* Nested transaction calls with statements run inside and between them.
NextDb ==
    \/ \E etype \in ErrorTypes, ok \in BOOLEAN : TransactionCall(etype, ok)
    \/ \E body \in BodyResults("Error") \cup BodyResults("Custom"),
          ok \in BOOLEAN : TransactionBodyExit(body, ok)
    \/ \E query \in Sqls, ok \in BOOLEAN : BatchExecute(query, ok)

SpecDb == Init /\ [][NextDb]_vars

\* establish(url, config): as Init, with any configuration.
InitConn ==
    /\ transaction_depth = 0
    /\ savepoints = <<>>
    /\ in_txn = FALSE
    /\ stack = <<>>
    /\ last = [cmd |-> NoCmd, open |-> <<>>]
    /\ ret = NoRet
    /\ db = {}
    /\ snaps = <<>>
    /\ statement_cache = {}
    /\ is_log_query \in BOOLEAN
    /\ is_explain_query \in BOOLEAN
    /\ qret = NoQ

\* The same call with logging and explaining switched off.
Plain(r) == [res |-> r.res, executed |-> r.executed]

\* execute(query) is called.
Execute(query, ans) ==
    LET r == execute(query, is_log_query, is_explain_query, ans)
    IN  /\ db' = IF r.executed THEN EngineExec(db, query, ans.run) ELSE db
        /\ qret' = [NoQ EXCEPT !.fn = "execute", !.query = query,
                               !.events = r.events, !.res = r.res,
                               !.executed = r.executed,
                               !.plain = Plain(execute(query, FALSE, FALSE, ans))]
        /\ TxnUntouched
        /\ UNCHANGED conn

\* query_by_index(source) is called.
QueryByIndex(q, ans) ==
    LET r == query_by_index(statement_cache, q, is_log_query,
                            is_explain_query, ans)
    IN  /\ statement_cache' = r.cache
        /\ qret' = [NoQ EXCEPT !.fn = "query_by_index", !.query = to_sql(q),
                               !.q = q, !.events = r.events, !.res = r.res,
                               !.executed = r.executed, !.stmt = r.stmt,
                               !.built = r.built,
                               !.plain = Plain(query_by_index(
                                            statement_cache, q, FALSE, FALSE, ans))]
        /\ TxnUntouched
        /\ UNCHANGED <<db, is_log_query, is_explain_query>>

\* execute_returning_count(source) is called.
ExecuteReturningCount(q, ans) ==
    LET r == execute_returning_count(statement_cache, q, is_log_query,
                                     is_explain_query, ans)
    IN  /\ statement_cache' = r.cache
        /\ qret' = [NoQ EXCEPT !.fn = "execute_returning_count",
                               !.query = to_sql(q),
                               !.q = q, !.events = r.events, !.res = r.res,
                               !.executed = r.executed, !.stmt = r.stmt,
                               !.built = r.built,
                               !.plain = Plain(execute_returning_count(
                                            statement_cache, q, FALSE, FALSE, ans))]
        /\ TxnUntouched
        /\ UNCHANGED <<db, is_log_query, is_explain_query>>

\* change_password(password) is called.
ChangePassword(rekey) ==
    /\ qret' = [NoQ EXCEPT !.fn = "change_password",
                           !.res = change_password(rekey),
                           !.rekey = rekey]
    /\ TxnUntouched
    /\ UNCHANGED <<db, statement_cache, is_log_query, is_explain_query>>

\* SQL texts handed to execute on a connection under observation: the probe
\* query and a pragma.
ConnSqls == {"SELECT 1", "PRAGMA CACHE_SIZE"}

\* For execute only the answers to EXPLAIN and to the statement matter.
ExecuteAnswers ==
    {a \in Answers : a.prepare /\ a.bind = "ok" /\ a.to_sql}

\* Queries, statements and re-keying on a connection with any
\* configuration.
NextConn ==
    \/ \E query \in ConnSqls, ans \in ExecuteAnswers : Execute(query, ans)
    \/ \E q \in Queries, ans \in Answers : QueryByIndex(q, ans)
    \/ \E q \in Queries, ans \in Answers : ExecuteReturningCount(q, ans)
    \/ \E rekey \in RekeyResults : ChangePassword(rekey)
    \/ \E query \in ConnSqls, ok \in BOOLEAN : BatchExecute(query, ok)

SpecConn == InitConn /\ [][NextConn]_vars

\* With the default configuration nothing is rendered or explained, so only
\* the answers to prepare, bind and run matter.
PlainAnswers == {a \in Answers : a.to_sql /\ a.explain}

\* The whole life of a connection with the default configuration: queries,
\* statements, re-keying and (nested) transactions.
NextLife ==
    \/ \E query \in ConnSqls, ans \in PlainAnswers \cap ExecuteAnswers :
            Execute(query, ans)
    \/ \E q \in Queries, ans \in PlainAnswers : QueryByIndex(q, ans)
    \/ \E q \in Queries, ans \in PlainAnswers : ExecuteReturningCount(q, ans)
    \/ \E rekey \in RekeyResults : ChangePassword(rekey)
    \/ \E query \in ConnSqls, ok \in BOOLEAN : BatchExecute(query, ok)
    \/ \E ok \in BOOLEAN : TransactionCall("Error", ok)
    \/ \E body \in BodyResults("Error"), ok \in BOOLEAN :
            TransactionBodyExit(body, ok)

SpecLife == Init /\ [][NextLife]_vars

(***************************************************************************)
(* Properties                                                              *)
(***************************************************************************)
\* The last finished call was a call of transaction: either transaction
\* itself or the call test_transaction makes.
IsTxn == ret.fn \in {"transaction", "test_transaction"}

\* The body of the last finished call was run and returned.
BodyReturned == IsTxn /\ ret.body.tag \in {"Ok", "Err"}

\* Number of commands of kind op the last finished call issued.
Issued(op) == Cardinality({i \in 1..Len(ret.cmds) : ret.cmds[i].op = op})

\* C1 as stated: whenever the body returns Ok(v), transaction commits,
\* returns Ok(v) and leaves the depth at its pre-call value.
C1_AsStated ==
    (ret.fn = "transaction" /\ ret.body.tag = "Ok") =>
        /\ ret.cmds[2].op = "commit"
        /\ ret.res = ret.body
        /\ ret.d1 = ret.d0

\* C1 amended: whenever the body returns Ok(v), transaction issues one
\* commit and no rollback; when the commit succeeds it returns Ok(v) with v
\* unchanged and the depth is one less than at the body's return, which is
\* the pre-call depth d when the body left the depth at d + 1; when the
\* commit fails it returns the commit's failure converted into the caller's
\* error type.
C1_CommitOnOk ==
    (ret.fn = "transaction" /\ ret.body.tag = "Ok") =>
        /\ Len(ret.cmds) = 2
        /\ ret.cmds[2].op = "commit"
        /\ ret.cmds[2].ok =>
              /\ ret.res = Ok(ret.body.val)
              /\ ret.d1 = ret.cmds[2].at - 1
              /\ (ret.cmds[2].at = ret.d0 + 1 => ret.d1 = ret.d0)
        /\ ~ret.cmds[2].ok =>
              ret.res = Err(From(ret.etype, DatabaseError("commit")))

C1_Witness ==
    /\ ret.fn = "transaction"
    /\ ret.body.tag = "Ok"
    /\ ret.cmds[2].ok
    /\ ret.d0 >= 1
    /\ ret.d1 = ret.d0

\* C2 as stated: whenever the body returns Err(e), transaction rolls back,
\* returns Err(e) and leaves the depth at its pre-call value.
C2_AsStated ==
    (ret.fn = "transaction" /\ ret.body.tag = "Err") =>
        /\ ret.cmds[2].op = "rollback"
        /\ ret.res = ret.body
        /\ ret.d1 = ret.d0

\* C2 amended: whenever the body returns Err(e), transaction issues one
\* rollback and no commit; when the rollback succeeds it returns Err(e) with
\* e unchanged and the depth is one less than at the body's return, which is
\* the pre-call depth d when the body left the depth at d + 1; when the
\* rollback fails it returns the rollback's failure converted into the
\* caller's error type.
C2_RollbackOnErr ==
    (ret.fn = "transaction" /\ ret.body.tag = "Err") =>
        /\ Len(ret.cmds) = 2
        /\ ret.cmds[2].op = "rollback"
        /\ ret.cmds[2].ok =>
              /\ ret.res = Err(ret.body.val)
              /\ ret.d1 = ret.cmds[2].at - 1
              /\ (ret.cmds[2].at = ret.d0 + 1 => ret.d1 = ret.d0)
        /\ ~ret.cmds[2].ok =>
              ret.res = Err(From(ret.etype, DatabaseError("rollback")))

C2_Witness ==
    /\ ret.fn = "transaction"
    /\ ret.body.tag = "Err"
    /\ ret.cmds[2].ok
    /\ ret.d0 >= 1
    /\ ret.d1 = ret.d0

\* C3: after any exit from transaction whose begin opened a scope (body
\* success, body error, body panic), the depth equals its pre-call value
\* and the scope has been closed by a successful commit or rollback.
C3_NoScopeLeftOpen ==
    (ret.fn = "transaction" /\ ret.cmds[1].ok) =>
        /\ ret.d1 = ret.d0
        /\ Len(ret.cmds) = 2
        /\ ret.cmds[2].op \in {"commit", "rollback"}
        /\ ret.cmds[2].ok

\* C4 as stated: a call that returns Ok issued exactly one commit and no
\* rollback; a call that returns Err issued exactly one rollback and no
\* commit, whatever the Err comes from.
C4_AsStated ==
    IsTxn =>
        /\ ret.tres.tag = "Ok" => (Issued("commit") = 1 /\ Issued("rollback") = 0)
        /\ ret.tres.tag = "Err" => (Issued("rollback") = 1 /\ Issued("commit") = 0)

\* C4 amended: a call that returns Ok issued exactly one commit and no
\* rollback; a call that returns Err because its body returned Err issued
\* exactly one rollback and no commit; a call that returns Err because begin
\* failed issued neither; a call that returns Err because its commit failed
\* issued that one commit and no rollback.
C4_ExactlyOnce ==
    IsTxn =>
        /\ ret.tres.tag = "Ok" =>
              (Issued("commit") = 1 /\ Issued("rollback") = 0)
        /\ (ret.tres.tag = "Err" /\ ret.body.tag = "Err") =>
              (Issued("rollback") = 1 /\ Issued("commit") = 0)
        /\ (ret.tres.tag = "Err" /\ ret.body.tag = "NotRun") =>
              (Issued("rollback") = 0 /\ Issued("commit") = 0 /\ ~ret.cmds[1].ok)
        /\ (ret.tres.tag = "Err" /\ ret.body.tag = "Ok") =>
              (Issued("commit") = 1 /\ Issued("rollback") = 0 /\ ~ret.cmds[2].ok)

\* A nested call returned Err after its body returned Err.
C4_Witness ==
    /\ ret.fn = "transaction"
    /\ ret.tres.tag = "Err"
    /\ ret.body.tag = "Err"
    /\ Issued("rollback") = 1
    /\ stack # <<>>

\* C5: when the body returns Err(e), transaction returns exactly Err(e) if
\* the rollback succeeds, and the rollback's failure converted into the
\* caller's error type if the rollback fails.
C5_ErrorPropagation ==
    (IsTxn /\ ret.body.tag = "Err") =>
        /\ ret.cmds[2].op = "rollback"
        /\ ret.cmds[2].ok => ret.tres = Err(ret.body.val)
        /\ ~ret.cmds[2].ok =>
              ret.tres = Err(From(ret.etype, DatabaseError("rollback")))

\* The rollback failed and its failure replaced the body's error.
C5_Witness ==
    /\ ret.fn = "transaction"
    /\ ret.etype = "Custom"
    /\ ret.body = Err(<<"User">>)
    /\ ~ret.cmds[2].ok
    /\ ret.tres = Err(<<"FromError", "DatabaseError", "rollback">>)

\* C6 as stated: neither transaction nor test_transaction ever returns
\* Err(RollbackTransaction).
C6_AsStated ==
    IsTxn => ret.res # Err(RollbackTransaction)

\* C6 amended: test_transaction never returns RollbackTransaction, for any
\* body; transaction returns Err(RollbackTransaction) only when its own body
\* returned Err(RollbackTransaction), and never produces it itself.
C6_SentinelOnlyFromBody ==
    /\ ret.fn = "test_transaction" =>
          /\ ret.res.tag \in {"Ok", "Panic"}
          /\ ret.res.tag = "Ok" => ret.res.val \in Values
    /\ (ret.fn = "transaction" /\ ret.res = Err(RollbackTransaction)) =>
          ret.body = Err(RollbackTransaction)

\* A nested transaction handed its body's RollbackTransaction back.
C6_Witness ==
    /\ ret.fn = "transaction"
    /\ ret.body = Err(RollbackTransaction)
    /\ ret.cmds[2].ok
    /\ ret.res = Err(RollbackTransaction)
    /\ stack # <<>>

\* C7 as stated: whenever the function given to test_transaction returns
\* (Ok or Err), the scope is closed by a rollback, no commit is issued and
\* the depth afterwards is the pre-call depth.
C7_AsStated ==
    (ret.fn = "test_transaction" /\ ret.fbody.tag \in {"Ok", "Err"}) =>
        /\ ret.cmds[2].op = "rollback"
        /\ ret.cmds[2].ok
        /\ Issued("commit") = 0
        /\ ret.d1 = ret.d0

\* C7 amended: test_transaction never commits: for every outcome of the
\* function (Ok or Err) it issues exactly one rollback and no COMMIT or
\* RELEASE; when that rollback succeeds the depth afterwards is one less
\* than at the function's return, which is the pre-call depth d when the
\* function left the depth at d + 1.  When begin fails nothing but the begin
\* is issued and the depth is unchanged.
C7_NeverCommits ==
    ret.fn = "test_transaction" =>
        /\ Issued("commit") = 0
        /\ \A i \in 1..Len(ret.cmds) : ret.cmds[i].verb \notin {"COMMIT", "RELEASE"}
        /\ ret.fbody.tag \in {"Ok", "Err"} =>
              /\ Issued("rollback") = 1
              /\ ret.cmds[2].op = "rollback"
              /\ ret.cmds[2].ok =>
                    /\ ret.d1 = ret.cmds[2].at - 1
                    /\ (ret.cmds[2].at = ret.d0 + 1 => ret.d1 = ret.d0)
        /\ ret.fbody.tag = "NotRun" =>
              (Len(ret.cmds) = 1 /\ ret.d1 = ret.d0)

\* The function succeeded and the scope was rolled back all the same.
C7_Witness ==
    /\ ret.fn = "test_transaction"
    /\ ret.fbody.tag = "Ok"
    /\ ret.cmds[2].op = "rollback"
    /\ ret.cmds[2].ok
    /\ ret.d1 = ret.d0

\* The panic of test_transaction itself (not one unwinding from the body).
ExpectPanic == Panic("Transaction did not succeed")

\* C8 as stated: test_transaction returns v exactly when the function
\* returned Ok(v) and panics when it returned Err or was never run; the
\* panic comes after transaction returned and after a rollback was
\* attempted.
C8_AsStated ==
    (ret.fn = "test_transaction" /\ ret.fbody.tag # "Panic") =>
        /\ ret.fbody.tag = "Ok" => ret.res = Ok(ret.fbody.val)
        /\ ret.fbody.tag # "Ok" => ret.res = ExpectPanic
        /\ ret.res = ExpectPanic =>
              (ret.tres.tag \in {"Ok", "Err"} /\ Issued("rollback") = 1)

\* C8 amended: test_transaction returns v exactly when the function
\* returned Ok(v) and panics when it returned Err or was never run; the
\* panic comes only after the wrapping transaction call has returned, and a
\* rollback was attempted before it exactly when the function was run (when
\* begin fails no rollback is attempted).
C8_ValueOrPanic ==
    (ret.fn = "test_transaction" /\ ret.fbody.tag # "Panic") =>
        /\ ret.fbody.tag = "Ok" => ret.res = Ok(ret.fbody.val)
        /\ ret.fbody.tag # "Ok" => ret.res = ExpectPanic
        /\ ret.res.tag = "Ok" => ret.fbody = ret.res
        /\ ret.res = ExpectPanic =>
              /\ ret.tres.tag = "Err"
              /\ (Issued("rollback") = 1) <=> (ret.fbody.tag = "Err")
              /\ (Issued("rollback") = 0) <=> (ret.fbody.tag = "NotRun")

\* The function returned Err: rolled back, then panicked.
C8_Witness ==
    /\ ret.fn = "test_transaction"
    /\ ret.fbody.tag = "Err"
    /\ ret.res = ExpectPanic
    /\ Issued("rollback") = 1
    /\ stack = <<>>

\* C9: begin_test_transaction panics without a command and without a change
\* of depth whenever the depth is not 0; at depth 0 it issues one BEGIN, the
\* depth becomes 1 when that succeeds, and it issues no commit.
C9_BeginTestTransaction ==
    ret.fn = "begin_test_transaction" =>
        /\ ret.d0 # 0 =>
              /\ ret.res.tag = "Panic"
              /\ ret.cmds = <<>>
              /\ last.cmd = NoCmd
              /\ ret.d1 = ret.d0
              /\ savepoints = last.open
        /\ ret.d0 = 0 =>
              /\ ret.res.tag \in {"Ok", "Err"}
              /\ Len(ret.cmds) = 1
              /\ ret.cmds[1].verb = "BEGIN"
              /\ Issued("commit") = 0
              /\ ret.cmds[1].ok => (ret.d1 = 1 /\ ret.res = Ok(Unit))
              /\ ~ret.cmds[1].ok => (ret.d1 = 0 /\ ret.res.tag = "Err")

\* Called inside a running transaction: panic, everything left as it was.
C9_Witness ==
    /\ ret.fn = "begin_test_transaction"
    /\ ret.d0 = 2
    /\ ret.res.tag = "Panic"
    /\ transaction_depth = 2

NoDuplicates(sps) ==
    \A i, j \in 1..Len(sps) : i # j => sps[i] # sps[j]

\* C10: the commands are well nested by depth.  begin emits BEGIN exactly at
\* depth 0 and otherwise SAVEPOINT named by the new depth; commit emits
\* COMMIT exactly at depth 1 and otherwise RELEASE of the savepoint named by
\* the current depth; rollback emits ROLLBACK exactly at depth 1 and
\* otherwise ROLLBACK TO the savepoint named by the current depth; every
\* RELEASE / ROLLBACK TO names the newest open savepoint; no two open
\* savepoints share a name.
C10_WellNested ==
    /\ last.cmd.op = "begin" =>
          /\ (last.cmd.verb = "BEGIN") <=> (last.cmd.at = 0)
          /\ last.cmd.at # 0 =>
                (last.cmd.verb = "SAVEPOINT" /\ last.cmd.name = last.cmd.at + 1)
    /\ last.cmd.op = "commit" =>
          /\ last.cmd.at >= 1
          /\ (last.cmd.verb = "COMMIT") <=> (last.cmd.at = 1)
          /\ last.cmd.at # 1 =>
                (last.cmd.verb = "RELEASE" /\ last.cmd.name = last.cmd.at)
    /\ last.cmd.op = "rollback" =>
          /\ last.cmd.at >= 1
          /\ (last.cmd.verb = "ROLLBACK") <=> (last.cmd.at = 1)
          /\ last.cmd.at # 1 =>
                (last.cmd.verb = "ROLLBACK TO" /\ last.cmd.name = last.cmd.at)
    /\ last.cmd.verb \in {"RELEASE", "ROLLBACK TO"} =>
          /\ last.open # <<>>
          /\ last.open[Len(last.open)] = last.cmd.name
    /\ NoDuplicates(savepoints)
    /\ Len(savepoints) = (IF transaction_depth = 0 THEN 0 ELSE transaction_depth - 1)
    /\ in_txn <=> (transaction_depth >= 1)

\* An inner savepoint was rolled back while an outer one stays open.
C10_Witness ==
    /\ last.cmd.verb = "ROLLBACK TO"
    /\ last.cmd.ok
    /\ last.cmd.name = 3
    /\ savepoints = <<2>>

\* C20: when begin_transaction fails inside transaction, the body is never
\* run (no call is in progress whose begin failed), neither a commit nor a
\* rollback is issued, and transaction returns the begin failure converted
\* into the caller's error type.
C20_BeginFailure ==
    /\ \A i \in 1..Len(stack) : stack[i].begin.ok
    /\ (ret.fn = "transaction" /\ ~ret.cmds[1].ok) =>
          /\ ret.body = NotRun
          /\ Len(ret.cmds) = 1
          /\ Issued("commit") = 0
          /\ Issued("rollback") = 0
          /\ ret.res = Err(From(ret.etype, DatabaseError("begin")))

\* A nested call whose SAVEPOINT was rejected.
C20_Witness ==
    /\ ret.fn = "transaction"
    /\ ret.etype = "Custom"
    /\ ret.d0 >= 1
    /\ ~ret.cmds[1].ok
    /\ ret.res = Err(<<"FromError", "DatabaseError", "begin">>)
    /\ stack # <<>>

\* C11: rolling back an inner scope (one opened inside an open transaction)
\* undoes only that scope: every row present when the scope began is still
\* present, the rows committed into the enclosing call by earlier inner
\* transactions included; when the body left the depth as it should, the
\* rows are exactly those present when the scope began; and the outer
\* transaction is still open for further statements, a commit or a rollback.
C11_InnerRollbackIsLocal ==
    (/\ IsTxn
     /\ ret.body.tag = "Err"
     /\ ret.d0 >= 1
     /\ ret.cmds[2].op = "rollback"
     /\ ret.cmds[2].ok) =>
        /\ ret.db0 \subseteq db
        /\ ret.cmds[2].at = ret.d0 + 1 => db = ret.db0
        /\ in_txn
        /\ transaction_depth >= 1
        /\ snaps # <<>>
        /\ stack # <<>> => (Top.kept \subseteq db /\ Top.db0 \subseteq db)

\* The outer call added a, an earlier inner transaction committed b, and
\* the inner transaction that added c has just been rolled back.
C11_Witness ==
    /\ ret.fn = "transaction"
    /\ ret.body.tag = "Err"
    /\ ret.cmds[2].verb = "ROLLBACK TO"
    /\ ret.cmds[2].ok
    /\ stack # <<>>
    /\ Top.db0 = {}
    /\ Top.kept = {"b"}
    /\ ret.db0 = {"a", "b"}
    /\ db = {"a", "b"}
    /\ transaction_depth = Top.d0 + 1

\* The calls that go through the statement cache, and all query calls.
QueryFns == {"query_by_index", "execute_returning_count"}
AllQueryFns == QueryFns \cup {"execute"}

\* Statement::prepare did not fail in the call r.
Prepared(r) == r.res # Err(DatabaseError("prepare"))

\* C12: after a cacheable query was executed there is exactly one cache
\* entry for its fingerprint; when an entry for the fingerprint existed
\* before (an earlier query with the same fingerprint), the statement is
\* not prepared again, the cache is unchanged and the statement used is the
\* one of that entry; otherwise it is prepared once and inserted.
C12_PreparedOnce ==
    [][(/\ qret'.fn \in QueryFns
        /\ is_cacheable(qret'.q)
        /\ Prepared(qret')) =>
            /\ Cardinality(Entries(statement_cache', Fingerprint(qret'.q))) = 1
            /\ qret'.stmt.kind = "Cached"
            /\ Entries(statement_cache, Fingerprint(qret'.q)) # {} =>
                  /\ ~qret'.built
                  /\ statement_cache' = statement_cache
                  /\ [fp |-> Fingerprint(qret'.q), by |-> qret'.stmt.by]
                        \in statement_cache
            /\ Entries(statement_cache, Fingerprint(qret'.q)) = {} =>
                  /\ qret'.built
                  /\ qret'.stmt.by = qret'.q
                  /\ statement_cache' = statement_cache \cup
                        {[fp |-> Fingerprint(qret'.q), by |-> qret'.q]}]_vars

\* Q2 (binding 2) ran on the statement prepared for Q1 (binding 1).
C12_Witness ==
    /\ qret.fn \in QueryFns
    /\ qret.q = [shape |-> "select_bind", arg |-> 2]
    /\ qret.res.tag = "Ok"
    /\ ~qret.built
    /\ qret.stmt = [kind |-> "Cached", by |-> [shape |-> "select_bind", arg |-> 1]]
    /\ Cardinality(Entries(statement_cache, "select_bind")) = 1

\* C13: a query that is not cacheable (a raw SQL literal, or a list of
\* run-time length, of any length) never changes the statement cache, has
\* no entry in it, and gets a statement built for this call alone.
C13_NeverCached ==
    [][(qret'.fn \in QueryFns /\ ~is_cacheable(qret'.q)) =>
            /\ statement_cache' = statement_cache
            /\ Entries(statement_cache', Fingerprint(qret'.q)) = {}
            /\ qret'.built
            /\ Prepared(qret') =>
                  qret'.stmt = [kind |-> "NonCached", by |-> qret'.q]]_vars

\* A list query ran on a connection whose cache holds other statements.
C13_Witness ==
    /\ qret.fn \in QueryFns
    /\ qret.q = [shape |-> "select_in_vec", arg |-> 3]
    /\ qret.res.tag = "Ok"
    /\ qret.stmt.kind = "NonCached"
    /\ Cardinality(statement_cache) = 2

\* C14: change_password returns Ok(()) exactly when the re-key reports
\* SQLITE_OK, and a DatabaseError of kind UnableToReEncrypt whenever the
\* re-key reports another result code.
C14_ChangePassword ==
    qret.fn = "change_password" =>
        /\ (qret.res = Ok(Unit)) <=> (qret.rekey = Ok(<<SQLITE_OK>>))
        /\ (qret.rekey.tag = "Ok" /\ qret.rekey.val # <<SQLITE_OK>>) =>
              /\ qret.res.tag = "Err"
              /\ SubSeq(qret.res.val, 1, 2) = <<"DatabaseError", "UnableToReEncrypt">>

C14_Witness ==
    /\ qret.fn = "change_password"
    /\ qret.rekey = Ok(<<"SQLITE_NOTADB">>)
    /\ qret.res = Err(<<"DatabaseError", "UnableToReEncrypt",
                        "message of", "SQLITE_NOTADB">>)

\* C15: whether the real query is executed, and the result returned, are
\* the same as with logging and explaining disabled.
C15_NoControlFlowChange ==
    qret.fn \in AllQueryFns =>
        /\ qret.res = qret.plain.res
        /\ qret.executed = qret.plain.executed

\* Number of events of a kind in the last query call, and the place of the
\* first one (0 if there is none).
CountEv(kind) ==
    Cardinality({i \in 1..Len(qret.events) : qret.events[i].ev = kind})

PosEv(kinds) ==
    IF \E i \in 1..Len(qret.events) : qret.events[i].ev \in kinds
    THEN CHOOSE i \in 1..Len(qret.events) :
            /\ qret.events[i].ev \in kinds
            /\ \A j \in 1..(i - 1) : qret.events[j].ev \notin kinds
    ELSE 0

\* C16: with logging enabled, a non-probe query that is executed has its
\* logger created before the execution and its one log record written
\* after it.
C16_LogSpansExecution ==
    (/\ is_log_query
     /\ qret.fn \in AllQueryFns
     /\ qret.query # "SELECT 1"
     /\ qret.executed) =>
        /\ CountEv("logger_new") = 1
        /\ CountEv("log") = 1
        /\ PosEv({"logger_new"}) < PosEv({"exec", "run"})
        /\ PosEv({"exec", "run"}) < PosEv({"log"})

\* C17: the probe query "SELECT 1" never causes a log record or an EXPLAIN
\* QUERY PLAN statement, whatever the configuration.
C17_ProbeExempt ==
    (qret.fn \in AllQueryFns /\ qret.query = "SELECT 1") =>
        \A i \in 1..Len(qret.events) :
            qret.events[i].ev \notin {"logger_new", "log", "explain", "explain_log"}

\* A typed query rendering as the probe text ran with both flags on.
C17_Witness ==
    /\ is_log_query
    /\ is_explain_query
    /\ qret.fn = "query_by_index"
    /\ qret.query = "SELECT 1"
    /\ qret.executed
    /\ qret.res.tag = "Ok"
    /\ qret.events = <<Ev("run", <<"SELECT 1">>)>>

\* The last query call got as far as explain capture: execute always does,
\* the other two once the statement is prepared and bound and the SQL
\* rendered.
ReachedExplain ==
    \/ qret.fn = "execute"
    \/ /\ qret.fn \in QueryFns
       /\ Prepared(qret)
       /\ ~(/\ qret.res.tag = "Err"
            /\ qret.res.val[1] \in {"SerializationError", "QueryBuilderError"})

\* C18 as stated: with explaining enabled every non-probe query issues
\* exactly one EXPLAIN QUERY PLAN statement.
C18_AsStated ==
    (/\ is_explain_query
     /\ qret.fn \in AllQueryFns
     /\ qret.query # "SELECT 1") =>
        CountEv("explain") = 1

\* C18 amended: with explaining enabled, a non-probe query issues exactly
\* one EXPLAIN QUERY PLAN statement when it gets as far as explain capture
\* and none when it fails before; the statement explains the query itself,
\* never an EXPLAIN, and is issued before the real query runs, which runs
\* only when the EXPLAIN succeeded.
C18_ExplainOnce ==
    (/\ is_explain_query
     /\ qret.fn \in AllQueryFns
     /\ qret.query # "SELECT 1") =>
        /\ CountEv("explain") = (IF ReachedExplain THEN 1 ELSE 0)
        /\ \A i \in 1..Len(qret.events) :
              qret.events[i].ev = "explain" =>
                  qret.events[i].sql = <<"EXPLAIN QUERY PLAN", qret.query>>
        /\ qret.executed =>
              /\ CountEv("explain") = 1
              /\ CountEv("explain_log") = 1
              /\ PosEv({"explain"}) < PosEv({"exec", "run"})

C18_Witness ==
    /\ is_explain_query
    /\ qret.fn = "execute_returning_count"
    /\ qret.query = "SELECT ? IN (SELECT ?)"
    /\ qret.executed
    /\ qret.events[1] = Ev("explain", <<"EXPLAIN QUERY PLAN", "SELECT ? IN (SELECT ?)">>)

\* C19: the statement cache starts empty and only grows: no step removes an
\* entry, and only query_by_index and execute_returning_count add one;
\* execute, batch_execute, change_password and the begin, commit and
\* rollback of transactions leave it as it is.
C19_CacheOnlyGrows ==
    /\ statement_cache = {}
    /\ [][/\ statement_cache \subseteq statement_cache'
          /\ qret'.fn \notin QueryFns => statement_cache' = statement_cache]_vars

\* A transaction was rolled back on a connection with cached statements.
C19_Witness ==
    /\ statement_cache # {}
    /\ ret.fn = "transaction"
    /\ Len(ret.cmds) = 2
    /\ ret.cmds[2].op = "rollback"
    /\ ret.cmds[2].ok

====
